---- MODULE Spec2Model ----
(***************************************************************************)
(* Model of src/src-electron/main-process/electron-main.js: the startup    *)
(* orchestrator of zap.  One process invocation is modelled: the 'ready'   *)
(* handler (optional store reset, then dispatch to one workflow), the      *)
(* promise chain of the workflow that was started, and the lifecycle       *)
(* handlers 'window-all-closed', 'activate' and 'quit'.                    *)
(*                                                                         *)
(* A promise reaction runs as a microtask as soon as the promise it hangs  *)
(* on settles, so no event handler can run between the settlement of a     *)
(* collaborator call and the .then/.catch callback that consumes it.  Each *)
(* chain action is therefore "the pending collaborator call settles and    *)
(* the callbacks that follow run up to the next collaborator call".        *)
(***************************************************************************)
EXTENDS Integers, Sequences, FiniteSets, TLC

VARIABLES
  argv,          \* parsed command line: cmds (argv._), clearDb, noUi, showUrl, template, httpPort
  platform,      \* process.platform
  fs,            \* the two files clearDatabaseFile looks at: path and pathBak
  fsOps,         \* fs write operations attempted so far (unlink / rename)
  readyState,    \* 'ready' handler: "pending", "done" or "threw"
  started,       \* workflows started, in order
  chain,         \* promise chain of the workflow: "idle", "running", "fulfilled", "rejected"
  pending,       \* the collaborator call the chain is waiting for, or "none"
  chainErr,      \* the error the chain ended rejected with, or "none"
  rejected,      \* [stage, err] of the collaborator call that rejected, or NoRejection
  invoked,       \* number of invocations of each collaborator function
  completed,     \* functions whose promise has fulfilled
  mainDatabase,  \* env.mainDatabase(): the process-wide current store handle
  openedDb,      \* the handle dbApi.initDatabase resolved with
  ctx,           \* the db handle carried by the value the chain currently holds
  dbUsed,        \* handles passed as db argument to the collaborators after attachToDb
  boundPort,     \* httpServer.httpServerPort(): the port the server bound
  stdout,        \* console.log lines
  logInfo,       \* messages passed to env.logInfo
  logWarning,    \* messages passed to env.logWarning
  logError,      \* errors passed to env.logError
  quitCalls,     \* number of app.quit() calls
  windowOpen,    \* a window exists
  windowPort,    \* the port the existing (or last) window was created with
  dockHidden,    \* app.dock.hide() was called
  hasQuit,       \* the 'quit' event was emitted
  closeState,    \* closeDatabase promise: "none", "pending", "resolved", "rejected"
  closeArg       \* the handle closeDatabase was called with

vars == <<argv, platform, fs, fsOps, readyState, started, chain, pending,
          chainErr, rejected, invoked, completed, mainDatabase, openedDb, ctx, dbUsed,
          boundPort, stdout, logInfo, logWarning, logError, quitCalls,
          windowOpen, windowPort, dockHidden, hasQuit, closeState, closeArg>>

----------------------------------------------------------------------------
(* Bounds and value sets *)

MaxActivations == 2

Tokens == {"selfCheck", "generate", "sdkGen"}
Modes == {"SelfCheck", "Generate", "SdkGen", "Normal"}
Platforms == {"darwin", "linux"}
Handles == {"db1", "db2"}
NoHandle == "unset"
Errors == {"E1", "E2"}
NoFile == "absent"
StoreContents == {"store0"}
BackupContents == {"backup0"}
FreshContents == "fresh"
ConfiguredPorts == {0, 9070}
EphemeralPorts == {49152, 49153}
NoPort == -1
NoRejection == [stage |-> "none", err |-> "none"]

Fns == {"initDatabase", "setMainDatabase", "loadSchema", "loadZcl",
        "loadTemplates", "initHttpServer", "initializeElectronUi",
        "setHandlebarTemplateDirForCli", "generateCodeViaCli",
        "runSdkGeneration", "windowCreateIfNotThere", "closeDatabase"}

Bump(inv, S) == [f \in Fns |-> IF f \in S THEN inv[f] + 1 ELSE inv[f]]

IndexOf(seq, x) == CHOOSE i \in 1..Len(seq) : seq[i] = x

----------------------------------------------------------------------------
(* Collaborators that live outside electron-main.js *)

\* dbApi.initDatabase(path): opens or creates the store at path.
initDatabase(files) ==
  IF files.path = NoFile THEN [files EXCEPT !.path = FreshContents] ELSE files

\* dbApi.loadSchema resolves with the handle it was given; zclLoader.loadZcl
\* and generatorEngine.loadTemplates resolve with a context whose db is that handle.
StageResult(s, db) == db

\* httpServer.initHttpServer(db, port): the port the server binds.
initHttpServer(port) == IF port = 0 THEN EphemeralPorts ELSE {port}

\* httpServer.httpServerPort(): the port of the running server.
httpServerPort == boundPort

\* windowJs.windowCreateIfNotThere(port): a window is created only if none exists.
windowCreateIfNotThere(open, oldPort, port) ==
  IF open THEN [open |-> TRUE, port |-> oldPort] ELSE [open |-> TRUE, port |-> port]

----------------------------------------------------------------------------
(* electron-main.js *)

\* Variant: attachToDb resolves with db but does not register it.
attachToDbNoRegister(db) == [mainDatabase |-> mainDatabase, value |-> db]

\* attachToDb(db): env.setMainDatabase(db); resolve(db).
attachToDb(db) == [mainDatabase |-> db, value |-> db]

\* Variant: the metadata load is chained before the schema load.
startSelfCheckStagesZclFirst ==
  <<"initDatabase", "attachToDb", "loadZcl", "loadSchema", "loadTemplates">>

\* The collaborator calls of each workflow's promise chain, in chain order.
startSelfCheckStages ==
  <<"initDatabase", "attachToDb", "loadSchema", "loadZcl", "loadTemplates">>

startNormalStages ==
  <<"initDatabase", "attachToDb", "loadSchema", "loadZcl", "loadTemplates",
    "initHttpServer">>

\* Variant: the template directory override is ignored.
setGenerationDirAndTemplateDirNoOverride(handlebarTemplateDir) ==
  <<"generateCodeViaCli">>

setGenerationDirAndTemplateDir(handlebarTemplateDir) ==
  IF handlebarTemplateDir
    THEN <<"setHandlebarTemplateDirForCli", "generateCodeViaCli">>
    ELSE <<"generateCodeViaCli">>

\* Variant: applyGenerationSettings has lost its loadZcl step.
applyGenerationSettingsStagesNoZcl(handlebarTemplateDir) ==
  <<"initDatabase", "attachToDb", "loadSchema">>
    \o setGenerationDirAndTemplateDir(handlebarTemplateDir)

applyGenerationSettingsStages(handlebarTemplateDir) ==
  <<"initDatabase", "attachToDb", "loadSchema", "loadZcl">>
    \o setGenerationDirAndTemplateDir(handlebarTemplateDir)

startSdkGenerationStages ==
  <<"initDatabase", "attachToDb", "loadSchema", "loadZcl", "runSdkGeneration">>

\* Variant: startSelfCheck has lost its .catch.
HasCatchNormalOnly(mode) == mode = "Normal"

\* Which workflows end their chain with .catch(err => { env.logError(err); throw err }).
HasCatch(mode) == mode \in {"SelfCheck", "Normal"}

\* The stages that receive the db handle as an argument.
TakesDb == {"loadSchema", "loadZcl", "loadTemplates", "initHttpServer",
            "runSdkGeneration"}

\* Variant: the store file is copied to the backup path instead of renamed.
clearDatabaseFileCopies(files, unlinkThrows, renameThrows) ==
  IF files.path # NoFile
    THEN [fs |-> [files EXCEPT !.pathBak = files.path],
          ops |-> <<"copy">>, log |-> <<>>, threw |-> FALSE]
    ELSE [fs |-> files, ops |-> <<>>, log |-> <<>>, threw |-> FALSE]

\* Variant: the old backup is deleted before the store file is looked for.
clearDatabaseFileUnnested(files, unlinkThrows, renameThrows) ==
  LET hasBak == files.pathBak # NoFile
      f1 == IF hasBak THEN [files EXCEPT !.pathBak = NoFile] ELSE files
      ops1 == IF hasBak THEN <<"unlink">> ELSE <<>>
  IN IF files.path # NoFile
       THEN [fs |-> [path |-> NoFile, pathBak |-> f1.path],
             ops |-> ops1 \o <<"rename">>, log |-> <<>>, threw |-> FALSE]
       ELSE [fs |-> f1, ops |-> ops1, log |-> <<>>, threw |-> FALSE]

\* Variant: the unlink is given path instead of pathBak, so the rename that
\* follows finds no file and throws.
clearDatabaseFileUnlinksStore(files, unlinkThrows, renameThrows) ==
  IF files.path # NoFile
    THEN IF files.pathBak # NoFile
           THEN IF unlinkThrows
                  THEN [fs |-> files, ops |-> <<"unlink">>, log |-> <<>>,
                        threw |-> TRUE]
                  ELSE [fs |-> [files EXCEPT !.path = NoFile],
                        ops |-> <<"unlink", "rename">>, log |-> <<>>,
                        threw |-> TRUE]
           ELSE [fs |-> IF renameThrows THEN files
                        ELSE [path |-> NoFile, pathBak |-> files.path],
                 ops |-> <<"rename">>, log |-> <<>>, threw |-> renameThrows]
    ELSE [fs |-> files, ops |-> <<>>, log |-> <<>>, threw |-> FALSE]

\* clearDatabaseFile(): the outcome when fs.unlinkSync / fs.renameSync throw
\* (unlinkThrows, renameThrows) or not.
clearDatabaseFile(files, unlinkThrows, renameThrows) ==
  IF files.path # NoFile
    THEN LET hasBak == files.pathBak # NoFile
             warn1 == IF hasBak THEN <<"Deleting old backup file">>
                                ELSE <<>>
             ops1 == IF hasBak THEN <<"unlink">> ELSE <<>>
             f1 == IF hasBak /\ ~unlinkThrows
                     THEN [files EXCEPT !.pathBak = NoFile] ELSE files
         IN IF hasBak /\ unlinkThrows
              THEN [fs |-> f1, ops |-> ops1, log |-> warn1, threw |-> TRUE]
              ELSE [fs |-> IF renameThrows THEN f1
                           ELSE [path |-> NoFile, pathBak |-> f1.path],
                    ops |-> ops1 \o <<"rename">>,
                    log |-> warn1 \o <<"Database restart requested, moving file">>,
                    threw |-> renameThrows]
    ELSE [fs |-> files, ops |-> <<>>, log |-> <<>>, threw |-> FALSE]

\* Variant: the sdkGen branch is tested before the generate branch.
DispatchSdkGenFirst(cmds) ==
  IF "selfCheck" \in cmds THEN "SelfCheck"
  ELSE IF "sdkGen" \in cmds THEN "SdkGen"
  ELSE IF "generate" \in cmds THEN "Generate"
  ELSE "Normal"

\* The if / else-if ladder of the 'ready' handler.
Dispatch(cmds) ==
  IF "selfCheck" \in cmds THEN "SelfCheck"
  ELSE IF "generate" \in cmds THEN "Generate"
  ELSE IF "sdkGen" \in cmds THEN "SdkGen"
  ELSE "Normal"

\* What each workflow writes before it calls dbApi.initDatabase.
StartStdout(mode) ==
  IF mode = "SelfCheck" THEN <<<<"Starting self-check">>>> ELSE <<>>

StartLog(mode) ==
  IF mode = "Generate" THEN <<"Start Generation...">>
  ELSE IF mode = "SdkGen" THEN <<"Start SDK generation...">>
  ELSE <<>>

Stages(mode) ==
  IF mode = "SelfCheck" THEN startSelfCheckStages
  ELSE IF mode = "Normal" THEN startNormalStages
  ELSE IF mode = "Generate" THEN applyGenerationSettingsStages(argv.template)
  ELSE startSdkGenerationStages

TypeOK ==
  /\ argv \in [cmds : SUBSET Tokens, clearDb : BOOLEAN, noUi : BOOLEAN,
               showUrl : BOOLEAN, template : BOOLEAN, httpPort : ConfiguredPorts]
  /\ platform \in Platforms
  /\ readyState \in {"pending", "done", "threw"}
  /\ chain \in {"idle", "running", "fulfilled", "rejected"}
  /\ mainDatabase \in Handles \cup {NoHandle}
  /\ quitCalls \in Nat
  /\ windowOpen \in BOOLEAN
  /\ hasQuit \in BOOLEAN

Init ==
  /\ argv \in [cmds : SUBSET Tokens, clearDb : BOOLEAN, noUi : BOOLEAN,
               showUrl : BOOLEAN, template : BOOLEAN, httpPort : ConfiguredPorts]
  /\ platform \in Platforms
  /\ fs \in [path : StoreContents \cup {NoFile}, pathBak : BackupContents \cup {NoFile}]
  /\ fsOps = <<>>
  /\ readyState = "pending"
  /\ started = <<>>
  /\ chain = "idle"
  /\ pending = "none"
  /\ chainErr = "none"
  /\ rejected = NoRejection
  /\ invoked = [f \in Fns |-> 0]
  /\ completed = {}
  /\ mainDatabase = NoHandle
  /\ openedDb = NoHandle
  /\ ctx = NoHandle
  /\ dbUsed = {}
  /\ boundPort = NoPort
  /\ stdout = <<>>
  /\ logInfo = <<>>
  /\ logWarning = <<>>
  /\ logError = <<>>
  /\ quitCalls = 0
  /\ windowOpen = FALSE
  /\ windowPort = NoPort
  /\ dockHidden = FALSE
  /\ hasQuit = FALSE
  /\ closeState = "none"
  /\ closeArg = NoHandle

\* Variant: an exception of clearDatabaseFile is caught and ignored.
ReadyIgnoresResetError ==
  /\ readyState = "pending"
  /\ \E unlinkThrows \in BOOLEAN, renameThrows \in BOOLEAN :
       LET r == IF argv.clearDb
                  THEN clearDatabaseFile(fs, unlinkThrows, renameThrows)
                  ELSE [fs |-> fs, ops |-> <<>>, log |-> <<>>, threw |-> FALSE]
           mode == Dispatch(argv.cmds)
       IN /\ fs' = r.fs
          /\ fsOps' = fsOps \o r.ops
          /\ logWarning' = logWarning \o r.log
          /\ readyState' = "done"
          /\ logInfo' = Append(logInfo, "argv") \o StartLog(mode)
          /\ started' = Append(started, mode)
          /\ stdout' = stdout \o StartStdout(mode)
          /\ chain' = "running"
          /\ pending' = Stages(mode)[1]
          /\ invoked' = Bump(invoked, {Stages(mode)[1]})
          /\ UNCHANGED dbUsed
  /\ UNCHANGED <<argv, platform, chainErr, rejected, completed, mainDatabase,
                 openedDb, ctx, boundPort, logError, quitCalls, windowOpen,
                 windowPort, dockHidden, hasQuit, closeState, closeArg>>

\* app.on('ready'): parse the arguments, reset the store if asked to, start one workflow.
Ready ==
  /\ readyState = "pending"
  /\ \E unlinkThrows \in BOOLEAN, renameThrows \in BOOLEAN :
       LET r == IF argv.clearDb
                  THEN clearDatabaseFile(fs, unlinkThrows, renameThrows)
                  ELSE [fs |-> fs, ops |-> <<>>, log |-> <<>>, threw |-> FALSE]
           mode == Dispatch(argv.cmds)
       IN /\ fs' = r.fs
          /\ fsOps' = fsOps \o r.ops
          /\ logWarning' = logWarning \o r.log
          /\ IF r.threw
               THEN /\ readyState' = "threw"
                    /\ logInfo' = Append(logInfo, "argv")
                    /\ UNCHANGED <<started, chain, pending, invoked, stdout, dbUsed>>
               ELSE /\ readyState' = "done"
                    /\ logInfo' = Append(logInfo, "argv") \o StartLog(mode)
                    /\ started' = Append(started, mode)
                    /\ stdout' = stdout \o StartStdout(mode)
                    /\ chain' = "running"
                    /\ pending' = Stages(mode)[1]
                    /\ invoked' = Bump(invoked, {Stages(mode)[1]})
                    /\ UNCHANGED dbUsed
  /\ UNCHANGED <<argv, platform, chainErr, rejected, completed, mainDatabase, openedDb,
                 ctx, boundPort, logError, quitCalls, windowOpen, windowPort,
                 dockHidden, hasQuit, closeState, closeArg>>

UrlLine(port) == <<"url: http://localhost:", port, "/index.html">>

\* Variant: the success callback of startSelfCheck forgets app.quit().
SelfCheckDoneNoQuit ==
  /\ stdout' = Append(stdout, <<"Self-check done!">>)
  /\ UNCHANGED <<quitCalls, invoked, windowOpen, windowPort, dockHidden>>

\* The last .then callback of each chain.
\* startSelfCheck: console.log('Self-check done!'); app.quit()
SelfCheckDone ==
  /\ stdout' = Append(stdout, <<"Self-check done!">>)
  /\ quitCalls' = quitCalls + 1
  /\ UNCHANGED <<invoked, windowOpen, windowPort, dockHidden>>

\* Variant: the url is printed with the configured port, args.httpPort.
NormalDoneConfiguredPort ==
  /\ quitCalls' = quitCalls
  /\ IF ~argv.noUi
       THEN /\ invoked' = Bump(invoked, {"initializeElectronUi"})
            /\ windowOpen' = TRUE
            /\ windowPort' = httpServerPort'
            /\ UNCHANGED <<stdout, dockHidden>>
       ELSE /\ dockHidden' = (platform = "darwin")
            /\ stdout' = IF argv.showUrl
                           THEN Append(stdout, UrlLine(argv.httpPort))
                           ELSE stdout
            /\ UNCHANGED <<invoked, windowOpen, windowPort>>

\* startNormal: open the UI on the server's port, or hide the dock and print the url.
NormalDone ==
  /\ quitCalls' = quitCalls
  /\ IF ~argv.noUi
       THEN /\ invoked' = Bump(invoked, {"initializeElectronUi"})
            /\ windowOpen' = TRUE
            /\ windowPort' = httpServerPort'
            /\ UNCHANGED <<stdout, dockHidden>>
       ELSE /\ dockHidden' = (platform = "darwin")
            /\ stdout' = IF argv.showUrl
                           THEN Append(stdout, UrlLine(httpServerPort'))
                           ELSE stdout
            /\ UNCHANGED <<invoked, windowOpen, windowPort>>

\* applyGenerationSettings / startSdkGeneration: .then((res) => app.quit())
GenerationDone ==
  /\ quitCalls' = quitCalls + 1
  /\ UNCHANGED <<invoked, stdout, windowOpen, windowPort, dockHidden>>

\* The .then callbacks that run once call s has produced its value, up to the
\* next collaborator call; h is the handle initDatabase resolves with and p
\* the port initHttpServer binds.
Continue(mode, s, h, p) ==
  LET stages == Stages(mode)
      i == IndexOf(stages, s)
      v == IF s = "initDatabase" THEN h ELSE StageResult(s, ctx)
  IN /\ fs' = IF s = "initDatabase" THEN initDatabase(fs) ELSE fs
     /\ openedDb' = IF s = "initDatabase" THEN h ELSE openedDb
     /\ boundPort' = IF s = "initHttpServer" THEN p ELSE boundPort
     /\ IF i < Len(stages)
          THEN LET isAttach == stages[i + 1] = "attachToDb"
                   a == IF isAttach THEN attachToDb(v)
                        ELSE [mainDatabase |-> mainDatabase, value |-> v]
                   n == IF isAttach THEN stages[i + 2] ELSE stages[i + 1]
               IN /\ mainDatabase' = a.mainDatabase
                  /\ ctx' = a.value
                  /\ invoked' = Bump(invoked, IF isAttach THEN {"setMainDatabase", n}
                                              ELSE {n})
                  /\ completed' = completed \cup
                                    (IF isAttach THEN {s, "attachToDb"} ELSE {s})
                  /\ pending' = n
                  /\ dbUsed' = IF n \in TakesDb THEN dbUsed \cup {a.value} ELSE dbUsed
                  /\ chain' = chain
                  /\ UNCHANGED <<stdout, quitCalls, windowOpen, windowPort, dockHidden>>
          ELSE /\ completed' = completed \cup {s}
               /\ pending' = "none"
               /\ chain' = "fulfilled"
               /\ ctx' = v
               /\ UNCHANGED <<mainDatabase, dbUsed>>
               /\ IF mode = "SelfCheck" THEN SelfCheckDone
                  ELSE IF mode = "Normal" THEN NormalDone
                  ELSE GenerationDone

\* The pending call s fulfils.
Fulfil(mode, s, h, p) ==
  /\ UNCHANGED <<chainErr, rejected, logError>>
  /\ Continue(mode, s, h, p)

\* Variant: the rejection is swallowed and the chain goes on with the next callback.
RejectSwallowed(mode, s, err) ==
  /\ rejected' = [stage |-> s, err |-> err]
  /\ UNCHANGED <<chainErr, logError>>
  /\ Continue(mode, s, CHOOSE h \in Handles : TRUE,
              CHOOSE p \in initHttpServer(argv.httpPort) : TRUE)

\* The pending call s rejects with err: the remaining .then callbacks are
\* skipped; a trailing .catch logs the error and throws it again.
Reject(mode, s, err) ==
  /\ rejected' = [stage |-> s, err |-> err]
  /\ chain' = "rejected"
  /\ chainErr' = err
  /\ pending' = "none"
  /\ logError' = IF HasCatch(mode) THEN Append(logError, err) ELSE logError
  /\ UNCHANGED <<fs, boundPort, invoked, completed, mainDatabase, openedDb, ctx, dbUsed,
                 stdout, quitCalls, windowOpen, windowPort, dockHidden>>

\* One step of the promise chain of the workflow that was started.
Settle(mode) ==
  /\ chain = "running"
  /\ \/ \E h \in Handles, p \in initHttpServer(argv.httpPort) :
          Fulfil(mode, pending, h, p)
     \/ \E err \in Errors : Reject(mode, pending, err)
  /\ UNCHANGED <<argv, platform, fsOps, readyState, started, logInfo,
                 logWarning, hasQuit, closeState, closeArg>>

startSelfCheck ==
  /\ started = <<"SelfCheck">>
  /\ Settle("SelfCheck")

startNormal ==
  /\ started = <<"Normal">>
  /\ Settle("Normal")

applyGenerationSettings ==
  /\ started = <<"Generate">>
  /\ Settle("Generate")

startSdkGeneration ==
  /\ started = <<"SdkGen">>
  /\ Settle("SdkGen")

\* Variant: the platform test is missing, app.quit() is always called.
WindowAllClosedAlwaysQuits ==
  /\ windowOpen
  /\ ~hasQuit
  /\ windowOpen' = FALSE
  /\ quitCalls' = quitCalls + 1
  /\ UNCHANGED <<argv, platform, fs, fsOps, readyState, started, chain, pending,
                 chainErr, rejected, invoked, completed, mainDatabase, openedDb,
                 ctx, dbUsed, boundPort, stdout, logInfo, logWarning, logError,
                 windowPort, dockHidden, hasQuit, closeState, closeArg>>

\* app.on('window-all-closed'): the last window is closed.
WindowAllClosed ==
  /\ windowOpen
  /\ ~hasQuit
  /\ windowOpen' = FALSE
  /\ quitCalls' = IF platform # "darwin" THEN quitCalls + 1 ELSE quitCalls
  /\ UNCHANGED <<argv, platform, fs, fsOps, readyState, started, chain, pending,
                 chainErr, rejected, invoked, completed, mainDatabase, openedDb, ctx,
                 dbUsed, boundPort, stdout, logInfo, logWarning, logError,
                 windowPort, dockHidden, hasQuit, closeState, closeArg>>

\* Variant: the activate handler starts the Normal workflow again.
ActivateRestarts ==
  /\ readyState # "pending"
  /\ ~hasQuit
  /\ platform = "darwin"
  /\ invoked["windowCreateIfNotThere"] < MaxActivations
  /\ logInfo' = Append(logInfo, "Activate...")
  /\ invoked' = Bump(invoked, {"windowCreateIfNotThere", "initDatabase"})
  /\ chain' = "running"
  /\ pending' = "initDatabase"
  /\ started' = <<"Normal">>
  /\ LET w == windowCreateIfNotThere(windowOpen, windowPort, argv.httpPort)
     IN /\ windowOpen' = w.open
        /\ windowPort' = w.port
  /\ UNCHANGED <<argv, platform, fs, fsOps, readyState, chainErr, rejected,
                 completed, mainDatabase, openedDb, ctx, dbUsed, boundPort, stdout,
                 logWarning, logError, quitCalls, dockHidden, hasQuit,
                 closeState, closeArg>>

\* app.on('activate'): emitted on macOS when the application is activated.
Activate ==
  /\ readyState # "pending"
  /\ ~hasQuit
  /\ platform = "darwin"
  /\ invoked["windowCreateIfNotThere"] < MaxActivations
  /\ logInfo' = Append(logInfo, "Activate...")
  /\ invoked' = Bump(invoked, {"windowCreateIfNotThere"})
  /\ LET w == windowCreateIfNotThere(windowOpen, windowPort, argv.httpPort)
     IN /\ windowOpen' = w.open
        /\ windowPort' = w.port
  /\ UNCHANGED <<argv, platform, fs, fsOps, readyState, started, chain, pending,
                 chainErr, rejected, completed, mainDatabase, openedDb, ctx, dbUsed,
                 boundPort, stdout, logWarning, logError, quitCalls, dockHidden,
                 hasQuit, closeState, closeArg>>

\* app.on('quit'): dbApi.closeDatabase(env.mainDatabase()).  The event follows
\* an app.quit() call or a quit requested from outside (menu, OS).
Quit ==
  /\ readyState # "pending"
  /\ ~hasQuit
  /\ hasQuit' = TRUE
  /\ windowOpen' = FALSE
  /\ invoked' = Bump(invoked, {"closeDatabase"})
  /\ closeArg' = mainDatabase
  /\ closeState' = "pending"
  /\ UNCHANGED <<argv, platform, fs, fsOps, readyState, started, chain, pending,
                 chainErr, rejected, completed, mainDatabase, openedDb, ctx, dbUsed,
                 boundPort, stdout, logInfo, logWarning, logError, quitCalls,
                 windowPort, dockHidden>>

\* Variant: the completion message is logged however the close settles.
QuitCloseSettlesAlwaysLogs ==
  /\ closeState = "pending"
  /\ \E ok \in BOOLEAN :
       /\ closeState' = IF ok THEN "resolved" ELSE "rejected"
       /\ logInfo' = Append(logInfo, "Database closed, shutting down.")
  /\ UNCHANGED <<argv, platform, fs, fsOps, readyState, started, chain, pending,
                 chainErr, rejected, invoked, completed, mainDatabase, openedDb,
                 ctx, dbUsed, boundPort, stdout, logWarning, logError, quitCalls,
                 windowOpen, windowPort, dockHidden, hasQuit, closeArg>>

\* The closeDatabase promise settles; .then logs the completion message.
QuitCloseSettles ==
  /\ closeState = "pending"
  /\ \E ok \in BOOLEAN :
       IF ok
         THEN /\ closeState' = "resolved"
              /\ logInfo' = Append(logInfo, "Database closed, shutting down.")
         ELSE /\ closeState' = "rejected"
              /\ logInfo' = logInfo
  /\ UNCHANGED <<argv, platform, fs, fsOps, readyState, started, chain, pending,
                 chainErr, rejected, invoked, completed, mainDatabase, openedDb, ctx,
                 dbUsed, boundPort, stdout, logWarning, logError, quitCalls,
                 windowOpen, windowPort, dockHidden, hasQuit, closeArg>>

Next ==
  \/ Ready
  \/ startSelfCheck
  \/ startNormal
  \/ applyGenerationSettings
  \/ startSdkGeneration
  \/ WindowAllClosed
  \/ Activate
  \/ Quit
  \/ QuitCloseSettles

Spec == Init /\ [][Next]_vars

----------------------------------------------------------------------------
(* Properties *)

SetupStages == <<"initDatabase", "loadSchema", "loadZcl", "loadTemplates">>

PipelineFns == {"initDatabase", "setMainDatabase", "loadSchema", "loadZcl",
                "loadTemplates", "initHttpServer"}

DoneLines == {i \in DOMAIN stdout : stdout[i] = <<"Self-check done!">>}

UrlLines == SelectSeq(stdout, LAMBDA l : Len(l) = 3)

\* C1: in every mode, schema load is invoked only after store open has
\* completed, metadata load only after schema load has completed, and template
\* load only after metadata load has completed.
C1_StageOrder ==
  /\ invoked["loadSchema"] > 0 => "initDatabase" \in completed
  /\ invoked["loadZcl"] > 0 => "loadSchema" \in completed
  /\ invoked["loadTemplates"] > 0 => "loadZcl" \in completed

C1_Witness ==
  /\ started = <<"SelfCheck">>
  /\ pending = "loadTemplates"
  /\ invoked["loadTemplates"] = 1

\* C2 as stated: once the 'ready' handler has run, exactly one workflow has
\* been started, the one the first-match priority picks.
C2_Original ==
  readyState # "pending" =>
    /\ Len(started) = 1
    /\ started[1] = (CASE "selfCheck" \in argv.cmds -> "SelfCheck"
                       [] "selfCheck" \notin argv.cmds /\ "generate" \in argv.cmds -> "Generate"
                       [] argv.cmds = {"sdkGen"} -> "SdkGen"
                       [] argv.cmds = {} -> "Normal")

\* C2 amended: when the 'ready' handler returns without throwing (the store
\* reset, if requested, did not throw), exactly one workflow has been started,
\* chosen by priority selfCheck > generate > sdkGen > Normal; when the store
\* reset throws, no workflow is started; never more than one is started.
C2_DispatchByPriority ==
  /\ Len(started) <= 1
  /\ readyState \in {"pending", "threw"} => started = <<>>
  /\ readyState = "done" =>
       /\ "selfCheck" \in argv.cmds => started = <<"SelfCheck">>
       /\ "selfCheck" \notin argv.cmds /\ "generate" \in argv.cmds
            => started = <<"Generate">>
       /\ argv.cmds = {"sdkGen"} => started = <<"SdkGen">>
       /\ argv.cmds = {} => started = <<"Normal">>

C2_Witness ==
  /\ readyState = "done"
  /\ argv.cmds = {"generate", "sdkGen"}
  /\ started = <<"Generate">>

\* C3: once a setup stage (store open, schema load, metadata load, template
\* load) has rejected, no later stage is invoked and no mode-specific action
\* runs: no success marker, no generation, no SDK generation, no server start,
\* no UI window from the workflow, no url line.
C3_FailureAborts ==
  \A k \in 1..Len(SetupStages) :
    rejected.stage = SetupStages[k] =>
      /\ \A j \in (k + 1)..Len(SetupStages) : invoked[SetupStages[j]] = 0
      /\ DoneLines = {}
      /\ invoked["setHandlebarTemplateDirForCli"] = 0
      /\ invoked["generateCodeViaCli"] = 0
      /\ invoked["runSdkGeneration"] = 0
      /\ invoked["initHttpServer"] = 0
      /\ invoked["initializeElectronUi"] = 0
      /\ UrlLines = <<>>

C3_Witness ==
  /\ started = <<"Normal">>
  /\ rejected.stage = "loadSchema"
  /\ chain = "rejected"

\* C4: when the store reset runs with a store file and a backup file both
\* present and completes, the backup holds what the store file held, the old
\* backup contents are gone and no file is left at the store path.
C4_ResetRotates ==
  [][(/\ readyState = "pending"
      /\ readyState' = "done"
      /\ argv.clearDb
      /\ fs.path # NoFile
      /\ fs.pathBak # NoFile)
       => (/\ fs'.pathBak = fs.path
           /\ fs'.pathBak # fs.pathBak
           /\ fs'.path = NoFile)]_vars

C4_Witness ==
  /\ readyState = "done"
  /\ argv.clearDb
  /\ fsOps = <<"unlink", "rename">>
  /\ fs.pathBak \in StoreContents

\* C5: when the store reset is requested and there is no store file, no file
\* is deleted or renamed, nothing is thrown and an existing backup is untouched.
C5_ResetNoop ==
  [][(/\ readyState = "pending"
      /\ readyState' # "pending"
      /\ argv.clearDb
      /\ fs.path = NoFile)
       => (/\ fs' = fs
           /\ fsOps' = fsOps
           /\ readyState' = "done")]_vars

C5_Witness ==
  /\ readyState = "done"
  /\ argv.clearDb
  /\ fsOps = <<>>
  /\ fs.path = NoFile
  /\ fs.pathBak \in BackupContents

\* C6: in SelfCheck, once all five stages have succeeded there is exactly one
\* app.quit() call and exactly one success line; before the template load has
\* completed there is neither.
C6_SelfCheckSuccess ==
  started = <<"SelfCheck">> =>
    /\ {"initDatabase", "attachToDb", "loadSchema", "loadZcl", "loadTemplates"}
         \subseteq completed
         => quitCalls = 1 /\ Cardinality(DoneLines) = 1
    /\ "loadTemplates" \notin completed => quitCalls = 0 /\ DoneLines = {}

C6_Witness ==
  /\ started = <<"SelfCheck">>
  /\ chain = "fulfilled"
  /\ "loadTemplates" \in completed

\* C7: in SelfCheck, when the schema load rejects, no app.quit() call is made,
\* the error is logged exactly once and the chain ends rejected with that error.
C7_SelfCheckSchemaFailure ==
  (started = <<"SelfCheck">> /\ rejected.stage = "loadSchema") =>
    /\ quitCalls = 0
    /\ logError = <<rejected.err>>
    /\ chain = "rejected"
    /\ chainErr = rejected.err

C7_Witness ==
  /\ started = <<"SelfCheck">>
  /\ rejected = [stage |-> "loadSchema", err |-> "E2"]

\* C8 as stated: in Generate and SdkGen, once the generation call has settled,
\* fulfilled or rejected, app.quit() has been called.
C8_QuitAfterGenerationSettles ==
  (/\ started \in {<<"Generate">>, <<"SdkGen">>}
   /\ \/ "generateCodeViaCli" \in completed
      \/ "runSdkGeneration" \in completed
      \/ rejected.stage \in {"generateCodeViaCli", "runSdkGeneration"})
    => quitCalls >= 1

\* C9: the url line is on stdout exactly once, with the port the server bound,
\* when the run is Normal with UI disabled, show-url requested and the server
\* started; in every other case it is never written.
C9_UrlLine ==
  IF /\ started = <<"Normal">>
     /\ argv.noUi
     /\ argv.showUrl
     /\ "initHttpServer" \in completed
    THEN UrlLines = << <<"url: http://localhost:", boundPort, "/index.html">> >>
    ELSE UrlLines = <<>>

C9_Witness ==
  /\ argv.httpPort = 0
  /\ boundPort \in EphemeralPorts
  /\ Len(UrlLines) = 1

\* C10: activate signals never re-run the pipeline: store open is invoked
\* exactly once per process invocation and setCurrent, schema load, metadata
\* load, template load and server start at most once.
C10_ActivateNoRerun ==
  /\ readyState = "done" => invoked["initDatabase"] = 1
  /\ \A f \in PipelineFns : invoked[f] <= 1

C10_Witness ==
  /\ started = <<"Normal">>
  /\ "initHttpServer" \in completed
  /\ invoked["windowCreateIfNotThere"] >= 2

\* C11 as stated: when an activate signal arrives with no window present and
\* the server running, the window is created with the port the server bound.
C11_ReactivatePort ==
  [][(/\ invoked'["windowCreateIfNotThere"] = invoked["windowCreateIfNotThere"] + 1
      /\ ~windowOpen
      /\ "initHttpServer" \in completed)
       => (windowOpen' /\ windowPort' = boundPort)]_vars

CloseLogged ==
  \E i \in DOMAIN logInfo : logInfo[i] = "Database closed, shutting down."

\* C12: the quit handler calls closeDatabase on the current store handle, and
\* 'Database closed, shutting down.' is in the log only once that close has
\* resolved: not while it is pending and not when it rejected.
C12_CloseThenLog ==
  /\ [](CloseLogged => closeState = "resolved")
  /\ [][(~hasQuit /\ hasQuit')
          => (/\ closeArg' = mainDatabase
              /\ closeState' = "pending"
              /\ invoked'["closeDatabase"] = invoked["closeDatabase"] + 1)]_vars

C12_Witness ==
  /\ hasQuit
  /\ closeArg \in Handles
  /\ closeState = "resolved"
  /\ CloseLogged

\* The mode-specific action of the started workflow has begun.
ModeActionStarted ==
  /\ started # <<>>
  /\ CASE started[1] = "SelfCheck" -> DoneLines # {} \/ quitCalls > 0
       [] started[1] = "Normal" -> invoked["initHttpServer"] > 0
       [] started[1] = "Generate" ->
            \/ invoked["setHandlebarTemplateDirForCli"] > 0
            \/ invoked["generateCodeViaCli"] > 0
       [] started[1] = "SdkGen" -> invoked["runSdkGeneration"] > 0

\* C13 as stated: in all four modes the mode-specific action starts only after
\* the same five stages, template load included, have completed.
C13_Original ==
  ModeActionStarted =>
    {"initDatabase", "attachToDb", "loadSchema", "loadZcl", "loadTemplates"}
      \subseteq completed

\* C13 amended: in all four modes the mode-specific action starts only after
\* open store, register handle, load schema and load metadata have completed,
\* in that order; SelfCheck and Normal then also load the templates before
\* their action, Generate and SdkGen never load them.
C13_SetupPipeline ==
  /\ ModeActionStarted =>
       /\ {"initDatabase", "attachToDb", "loadSchema", "loadZcl"} \subseteq completed
       /\ started[1] \in {"SelfCheck", "Normal"} => "loadTemplates" \in completed
  /\ (started # <<>> /\ started[1] \in {"Generate", "SdkGen"})
       => invoked["loadTemplates"] = 0
  /\ invoked["setMainDatabase"] > 0 => "initDatabase" \in completed
  /\ invoked["loadSchema"] > 0 => "attachToDb" \in completed
  /\ invoked["loadZcl"] > 0 => "loadSchema" \in completed
  /\ invoked["loadTemplates"] > 0 => "loadZcl" \in completed

C13_Witness ==
  /\ started = <<"Generate">>
  /\ "generateCodeViaCli" \in completed
  /\ invoked["loadTemplates"] = 0

\* C14: in Generate with a template directory override, the template directory
\* is set, generation is invoked only once that has completed and not at all
\* if it failed; without an override generation is invoked directly and the
\* template directory is never set.
C14_TemplateDirBeforeGeneration ==
  started = <<"Generate">> =>
    IF argv.template
      THEN /\ "loadZcl" \in completed => invoked["setHandlebarTemplateDirForCli"] = 1
           /\ invoked["generateCodeViaCli"] > 0
                => "setHandlebarTemplateDirForCli" \in completed
           /\ rejected.stage = "setHandlebarTemplateDirForCli"
                => invoked["generateCodeViaCli"] = 0
      ELSE /\ invoked["setHandlebarTemplateDirForCli"] = 0
           /\ "loadZcl" \in completed => invoked["generateCodeViaCli"] = 1

C14_Witness ==
  /\ started = <<"Generate">>
  /\ argv.template
  /\ "setHandlebarTemplateDirForCli" \in completed
  /\ invoked["generateCodeViaCli"] = 1

\* C15: when the last window is closed, app.quit() is called if and only if
\* the platform is not darwin; on darwin no quit is requested and the store
\* handle is not closed.
C15_WindowAllClosed ==
  [][(windowOpen /\ ~windowOpen' /\ ~hasQuit')
       => IF platform # "darwin"
            THEN quitCalls' = quitCalls + 1
            ELSE /\ quitCalls' = quitCalls
                 /\ invoked'["closeDatabase"] = invoked["closeDatabase"]
                 /\ closeState' = closeState]_vars

C15_Witness ==
  /\ platform = "darwin"
  /\ started = <<"Normal">>
  /\ invoked["initializeElectronUi"] = 1
  /\ invoked["windowCreateIfNotThere"] = 0
  /\ ~windowOpen
  /\ ~hasQuit
  /\ quitCalls = 0

\* C16 as stated: in every mode, when a setup stage rejects, the error is
\* logged exactly once and the chain ends rejected with that error.
C16_FailureLoggedOnce ==
  \A k \in 1..Len(SetupStages) :
    rejected.stage = SetupStages[k] =>
      /\ logError = <<rejected.err>>
      /\ chain = "rejected"
      /\ chainErr = rejected.err

\* C17: the current store handle is set exactly once, as soon as store open
\* has completed and before schema load is invoked, to the handle store open
\* returned; it is never unset or replaced afterwards, and every later stage
\* is given that same handle.
C17_CurrentHandle ==
  /\ [](/\ invoked["setMainDatabase"] <= 1
        /\ "initDatabase" \in completed <=> invoked["setMainDatabase"] = 1
        /\ "initDatabase" \in completed
             => (openedDb \in Handles /\ mainDatabase = openedDb)
        /\ "initDatabase" \notin completed => mainDatabase = NoHandle
        /\ invoked["loadSchema"] > 0 => mainDatabase \in Handles
        /\ dbUsed \subseteq {mainDatabase})
  /\ [][mainDatabase # NoHandle => mainDatabase' = mainDatabase]_vars

C17_Witness ==
  /\ started = <<"Normal">>
  /\ "initHttpServer" \in completed
  /\ openedDb = "db2"
  /\ mainDatabase = "db2"
  /\ dbUsed = {"db2"}

\* The 'ready' handler runs with the store reset requested.
ResetStep ==
  /\ readyState = "pending"
  /\ readyState' # "pending"
  /\ argv.clearDb

\* C18 as stated: when the store reset fails, either nothing changed (store
\* file and previous backup as before) or the move completed.
C18_Original ==
  [][(ResetStep /\ readyState' = "threw")
       => \/ fs' = fs
          \/ (fs'.path = NoFile /\ fs'.pathBak = fs.path)]_vars

\* C18 amended: when the store reset fails, the store file is still in place
\* with its contents and no new backup was made; if the delete of the old
\* backup failed, or the rename failed with no old backup, nothing changed; if
\* the rename failed after the delete, the old backup is gone.
C18_FailedReset ==
  [][(ResetStep /\ readyState' = "threw")
       => /\ fs.path # NoFile
          /\ fs'.path = fs.path
          /\ fsOps' \in {<<"unlink">>, <<"rename">>, <<"unlink", "rename">>}
          /\ fsOps' = <<"unlink">> => fs' = fs
          /\ fsOps' = <<"rename">> => fs' = fs
          /\ fsOps' = <<"unlink", "rename">>
               => (fs.pathBak # NoFile /\ fs'.pathBak = NoFile)]_vars

C18_Witness ==
  /\ readyState = "threw"
  /\ fsOps = <<"unlink", "rename">>
  /\ fs.path \in StoreContents
  /\ fs.pathBak = NoFile

\* C19: the store reset is finished before store open is invoked; when the
\* reset fails the 'ready' handler throws, store open is never invoked and no
\* workflow is started.
C19_ResetBeforePipeline ==
  /\ [](readyState = "threw"
          => (invoked["initDatabase"] = 0 /\ started = <<>> /\ chain = "idle"))
  /\ [](invoked["initDatabase"] > 0 => readyState = "done")
  /\ [][(ResetStep /\ fs.path # NoFile)
          => /\ (fs'.path # NoFile \/ fs'.pathBak # fs.path)
                  => readyState' = "threw"
             /\ invoked'["initDatabase"] > 0
                  => (fs'.path = NoFile /\ fs'.pathBak = fs.path)]_vars

C19_Witness ==
  /\ readyState = "threw"
  /\ argv.clearDb
  /\ fsOps # <<>>
  /\ invoked["initDatabase"] = 0
  /\ started = <<>>

\* C20 as stated: close is invoked once, by the quit handler, on a handle
\* that store open returned and that was registered as current, never on an
\* unset handle.
C20_CloseOnRegisteredHandle ==
  /\ invoked["closeDatabase"] <= 1
  /\ hasQuit <=> invoked["closeDatabase"] = 1
  /\ hasQuit => (closeArg \in Handles /\ closeArg = openedDb)

====
